---- MODULE Spec2Model ----
(***************************************************************************)
(* A model of the expense dashboard's remote data client (lib/api) and of  *)
(* the three pages that consume it (Index, Expenses, PaidByMe) together    *)
(* with the DashboardHeader they embed.                                    *)
(*                                                                         *)
(* Text is modelled as a sequence of one-character strings, so that the    *)
(* form-urlencoding done by URLSearchParams is computed, not assumed.      *)
(* JavaScript and JSON values are tagged records: [t |-> tag, ...].        *)
(***************************************************************************)
EXTENDS Integers, Sequences, FiniteSets, TLC

\* ------------------------------------------------------------------ bounds

\* Elapsed seconds of a dashboard call saturate here (one past the deadline).
MaxElapsed == 6
\* Calls a caller other than a page makes directly on the exported functions.
MaxDirectCalls == 2
\* Changes of the year/month/category selects or of the search box on an
\* expense page.
MaxFilterChanges == 1
\* Clicks on the Sync button of the dashboard page.
MaxSyncClicks == 1
\* The largest total of a category, and the most categories, of the
\* enumerated category lists of the chart.
MaxTotal == 3
MaxCategories == 3

\* ------------------------------------------------------- program constants

\* setTimeout(() => controller.abort(), 5000): the deadline, in seconds.
TimeoutSeconds == 5
\* syncExpenses(daysBack: number = 30) and Index.handleSync's syncExpenses(30).
DefaultDaysBack == 30
\* data.slice(0, 8): the categories TopCategoryChart shows.
ShownCategories == 8

\* ------------------------------------------------------------ JS values

Undefined == [t |-> "undefined"]
JNull == [t |-> "null"]
JBool(b) == [t |-> "bool", v |-> b]
JNum(n) == [t |-> "num", v |-> n]
JStr(s) == [t |-> "str", v |-> s]
JList(l) == [t |-> "list", v |-> l]
JObj(fields) == [t |-> "obj", f |-> fields]

\* ToBoolean: what `x || y` and `if (x)` test.
Truthy(v) ==
  CASE v.t \in {"undefined", "null"} -> FALSE
    [] v.t = "bool" -> v.v
    [] v.t = "num" -> v.v # 0
    [] v.t = "str" -> v.v # <<>>
    [] OTHER -> TRUE

\* Reading a property of null or undefined throws a TypeError.
PropThrows(v) == v.t \in {"undefined", "null"}

\* v.k for a value whose property read does not throw.
Get(v, k) == IF v.t = "obj" /\ k \in DOMAIN v.f THEN v.f[k] ELSE Undefined

\* a || b
OrElse(a, b) == IF Truthy(a) THEN a ELSE b

\* The values a promise rejects with.  The message of a native error is
\* implementation-defined text, so a native error is known by its name alone.
AbortError == [name |-> "AbortError"]
TypeError == [name |-> "TypeError"]
SyntaxError == [name |-> "SyntaxError"]
ErrorOf(msg) == [name |-> "Error", message |-> msg]

Ok(v) == [ok |-> TRUE, value |-> v]
Throw(e) == [ok |-> FALSE, error |-> e]

\* ------------------------------------------------------------------ text

\* application/x-www-form-urlencoded percent-encode set: everything but
\* ASCII alphanumerics and * - . _ is escaped; a space becomes "+".
Unescaped ==
  {"0", "1", "2", "4", "a", "b", "c", "d", "e", "g", "h", "m", "n", "o",
   "r", "t", "y", "F", "*", "-", ".", "_"}
PercentCode ==
  [c \in {"&", "=", "+", "%", "#", "?", "/"} |->
     CASE c = "&" -> <<"%", "2", "6">>
       [] c = "=" -> <<"%", "3", "D">>
       [] c = "+" -> <<"%", "2", "B">>
       [] c = "%" -> <<"%", "2", "5">>
       [] c = "#" -> <<"%", "2", "3">>
       [] c = "?" -> <<"%", "3", "F">>
       [] c = "/" -> <<"%", "2", "F">>]

FormEncodeChar(c) ==
  IF c \in Unescaped THEN <<c>>
  ELSE IF c = " " THEN <<"+">>
  ELSE PercentCode[c]

RECURSIVE FormEncode(_)
FormEncode(s) ==
  IF s = <<>> THEN <<>> ELSE FormEncodeChar(Head(s)) \o FormEncode(Tail(s))

\* URLSearchParams.toString(): name=value pairs joined by "&".
RECURSIVE SearchParamsToString(_)
SearchParamsToString(pairs) ==
  IF pairs = <<>> THEN <<>>
  ELSE LET p == Head(pairs)
           one == FormEncode(p[1]) \o <<"=">> \o FormEncode(p[2])
       IN IF Tail(pairs) = <<>> THEN one
          ELSE one \o <<"&">> \o SearchParamsToString(Tail(pairs))

\* -------------------------------------------------------- the data client

API_BASE == "/api"

\* What fetch(url, init) is given: method, URL (path and search part) and
\* body; `signal` says whether an AbortSignal is attached.
Request(method, path, search, body, signal) ==
  [method |-> method, url |-> [path |-> path, search |-> search],
   body |-> body, signal |-> signal]

\* params?.k : undefined when params itself is undefined.
OptGet(params, k) == IF PropThrows(params) THEN Undefined ELSE Get(params, k)

ParamName(k) ==
  CASE k = "year" -> <<"y", "e", "a", "r">>
    [] k = "month" -> <<"m", "o", "n", "t", "h">>
    [] k = "category" -> <<"c", "a", "t", "e", "g", "o", "r", "y">>

\* The set() done for every filter that is given, empty or not.
SetIfGiven(params, k) ==
  IF OptGet(params, k).t = "str"
  THEN << <<ParamName(k), OptGet(params, k).v>> >>
  ELSE <<>>

\* if (params?.k) searchParams.set(k, params.k)
SetIfTruthy(params, k) ==
  IF Truthy(OptGet(params, k))
  THEN << <<ParamName(k), OptGet(params, k).v>> >>
  ELSE <<>>

\* The URLSearchParams fetchExpenses fills, in insertion order.
ExpenseSearchParams(params) ==
  SetIfTruthy(params, "year") \o SetIfTruthy(params, "month")
    \o SetIfTruthy(params, "category")

\* searchParams.toString() ? `${API_BASE}/expenses?${searchParams}`
\*                         : `${API_BASE}/expenses`
ExpensesRequest(params) ==
  LET q == SearchParamsToString(ExpenseSearchParams(params))
  IN Request("GET", API_BASE \o "/expenses",
             IF q # <<>> THEN <<"?">> \o q ELSE <<>>, Undefined, FALSE)

DashboardRequest ==
  Request("GET", API_BASE \o "/dashboard", <<>>, Undefined, TRUE)

\* Number-to-text of JSON.stringify, for an integer: decimal digits, "-" first
\* for a negative one.
DigitChars == <<"0", "1", "2", "3", "4", "5", "6", "7", "8", "9">>

RECURSIVE NatText(_)
NatText(n) ==
  IF n < 10 THEN <<DigitChars[n + 1]>>
  ELSE NatText(n \div 10) \o <<DigitChars[(n % 10) + 1]>>

NumberText(n) == IF n < 0 THEN <<"-">> \o NatText(0 - n) ELSE NatText(n)

\* JSON.stringify({ days_back: v }): a member whose value is undefined is
\* left out.
StringifyDaysBack(v) ==
  IF v = Undefined THEN <<"{", "}">>
  ELSE <<"{", "\"", "d", "a", "y", "s", "_", "b", "a", "c", "k", "\"", ":">>
         \o NumberText(v.v) \o <<"}">>

\* A syncExpenses whose parameter has no default value.
SyncRequestNoDefault(daysBack) ==
  Request("POST", API_BASE \o "/sync", <<>>,
          JStr(StringifyDaysBack(daysBack)), FALSE)

\* daysBack: number = 30 : the default applies to an undefined argument.
\* The body is the text JSON.stringify({ days_back: daysBack }).
SyncRequest(daysBack) ==
  Request("POST", API_BASE \o "/sync", <<>>,
          JStr(StringifyDaysBack(IF daysBack = Undefined
                                 THEN JNum(DefaultDaysBack) ELSE daysBack)),
          FALSE)

AuthRequest ==
  Request("GET", API_BASE \o "/auth/status", <<>>, Undefined, FALSE)

RequestOf(op, arg) ==
  CASE op = "fetchDashboard" -> DashboardRequest
    [] op = "fetchExpenses" -> ExpensesRequest(arg)
    [] op = "syncExpenses" -> SyncRequest(arg)
    [] op = "fetchAuthStatus" -> AuthRequest

\* if (!response.ok) throw new Error('Failed to ...')
FailureMessage(op) ==
  CASE op = "fetchDashboard" -> "Failed to fetch dashboard data"
    [] op = "fetchExpenses" -> "Failed to fetch expenses"
    [] op = "syncExpenses" -> "Failed to sync expenses"
    [] op = "fetchAuthStatus" -> "Failed to fetch auth status"

\* Response.ok: a status in 200..299.
IsOk(status) == status >= 200 /\ status <= 299

StatusError(op, status) == ErrorOf(FailureMessage(op))

\* A response body: text that is JSON for `json`, or text that is not JSON.
Body(json) == [valid |-> TRUE, json |-> json]
InvalidBody == [valid |-> FALSE, json |-> Undefined]

\* return json.dashboard, without the fall back to the body itself.
UnwrapDashboardField(json) == Get(json, "dashboard")

\* return json.dashboard || json
UnwrapDashboard(json) == OrElse(Get(json, "dashboard"), json)

\* The list read from a field the envelope does not have.
UnwrapExpensesOtherField(json) == OrElse(Get(json, "data"), JList(<<>>))

\* return json.expenses || []
UnwrapExpenses(json) == OrElse(Get(json, "expenses"), JList(<<>>))

\* The same with user: json.user, without the fall back to null.
UnwrapAuthNoFallback(json) ==
  JObj([authenticated |-> Get(json, "authenticated"),
        user |-> Get(json, "user")])

\* return { authenticated: json.authenticated, user: json.user || null }
UnwrapAuth(json) ==
  JObj([authenticated |-> Get(json, "authenticated"),
        user |-> OrElse(Get(json, "user"), JNull)])

\* What the operation does with the parsed body of a success response.
Decode(op, json) ==
  CASE op = "fetchDashboard" ->
         IF PropThrows(json) THEN Throw(TypeError) ELSE Ok(UnwrapDashboard(json))
    [] op = "fetchExpenses" ->
         IF PropThrows(json) THEN Throw(TypeError) ELSE Ok(UnwrapExpenses(json))
    [] op = "syncExpenses" -> Ok(json)
    [] op = "fetchAuthStatus" ->
         IF PropThrows(json) THEN Throw(TypeError) ELSE Ok(UnwrapAuth(json))

\* await response.json(), then the unwrap: response.json() rejects with a
\* SyntaxError when the text is not JSON.
BodyOutcome(op, body) ==
  IF ~body.valid THEN Throw(SyntaxError) ELSE Decode(op, body.json)

\* ------------------------------------------------------------ sample data

Text2024 == <<"2", "0", "2", "4">>
TextMe == <<"m", "e">>

\* An Expense as the pages read it (amounts play no part in what is fetched).
Expense1 ==
  [id |-> 1, description |-> <<"t", "e", "a">>,
   date |-> Text2024 \o <<"-", "0", "1", "-", "0", "2">>,
   category |-> <<"a", "&", "b">>, ai_category |-> <<>>,
   payer_name |-> TextMe]
Expense2 ==
  [id |-> 2, description |-> <<"c", "a", "b">>,
   date |-> Text2024 \o <<"-", "0", "2", "-", "1", "1">>,
   category |-> <<"a", "&", "b">>, ai_category |-> <<"g", "o">>,
   payer_name |-> <<"y", "o">>]

ExpenseLists == {<<>>, <<Expense1>>, <<Expense2, Expense1>>}

\* A DashboardData, told from another by its totals.
Snapshot(n) ==
  JObj([total_expenses |-> JNum(100 * n), expense_count |-> JNum(n)])
Snapshots == {Snapshot(1), Snapshot(2)}

UserOf(first) == JObj([id |-> JNum(1), first_name |-> JStr(first)])
Users == {UserOf(TextMe), UserOf(<<>>)}

\* ------------------------------------------------- what the server may send

Statuses == {200, 404, 500}

ServerBodies(op) ==
  {InvalidBody, Body(JNull)} \cup
  CASE op = "fetchDashboard" ->
         {Body(s) : s \in Snapshots}
           \cup {Body(JObj([dashboard |-> s])) : s \in Snapshots}
    [] op = "fetchExpenses" ->
         {Body(JObj([count |-> JNum(0), success |-> JBool(TRUE)]))}
           \cup {Body(JObj([expenses |-> JList(l), count |-> JNum(Len(l)),
                            success |-> JBool(TRUE)])) : l \in ExpenseLists}
    [] op = "syncExpenses" ->
         {Body(JObj([message |-> JStr(<<"o", "k">>), new_expenses |-> JNum(n)]))
            : n \in {0, 2}}
    [] op = "fetchAuthStatus" ->
         {Body(JObj([authenticated |-> JBool(TRUE), user |-> u])) : u \in Users}
           \cup {Body(JObj([authenticated |-> JBool(FALSE), user |-> JNull])),
                 Body(JObj([authenticated |-> JBool(FALSE)]))}

\* ------------------------------------------------------------------ state

VARIABLES
  page,      \* which caller runs: "Direct" (the exported functions called
             \* directly), "Index", "Expenses" or "PaidByMe"
  mounted,   \* whether the page's mount effects have run
  calls,     \* the client calls made so far, in dispatch order
  requests,  \* every fetch() issued: [call |-> index in calls, req |-> Request]
  settled,   \* how the most recently settled call's promise settled
  data,      \* Index: the dashboard snapshot (JNull before the first one)
  loading,   \* the page's loading flag
  syncing,   \* Index: the syncing flag
  expenses,  \* Expenses / PaidByMe: the list held in state
  sel,       \* Expenses / PaidByMe: selectedYear, selectedMonth, selectedCategory
  searchTerm, \* Expenses / PaidByMe: the text of the search box
  userName,  \* PaidByMe: the user's first name ("" until known)
  header,    \* DashboardHeader: whether it is rendered, which instance, its user
  uiEvents   \* Sync clicks (Index), or select and search changes (expense
             \* pages), so far

vars ==
  <<page, mounted, calls, requests, settled, data, loading, syncing, expenses,
    sel, searchTerm, userName, header, uiEvents>>

pageVars ==
  <<data, loading, syncing, expenses, sel, searchTerm, userName, header>>

Pages == {"Index", "Expenses", "PaidByMe"}

NoSettlement ==
  [id |-> 0, op |-> "none", arg |-> Undefined, owner |-> "none", ok |-> FALSE,
   value |-> Undefined, error |-> Undefined, cause |-> "none", status |-> 0,
   body |-> InvalidBody, hasBody |-> FALSE, late |-> FALSE, aborted |-> FALSE]

Init ==
  /\ page \in Pages \cup {"Direct"}
  /\ mounted = FALSE
  /\ calls = <<>>
  /\ requests = <<>>
  /\ settled = NoSettlement
  /\ data = JNull
  /\ loading = TRUE
  /\ syncing = FALSE
  /\ expenses = <<>>
  /\ sel = [year |-> <<>>, month |-> <<>>, category |-> <<>>]
  /\ searchTerm = <<>>
  /\ userName = <<>>
  /\ header = [mounted |-> FALSE, inst |-> 0, user |-> JNull]
  /\ uiEvents = 0

\* ------------------------------------------------------- starting a call

\* A client whose every operation arms the abort timer.
NewCallWithDeadline(op, arg, owner, inst) ==
  [op |-> op, arg |-> arg, owner |-> owner, inst |-> inst, pc |-> "fetch",
   timer |-> TRUE, aborted |-> FALSE, elapsed |-> 0, status |-> 0]

\* The state of a call of `op` right after its fetch() was issued.
\* pc: "fetch" (awaiting the response), "json" (awaiting the body),
\* "resolved" or "rejected".  Only fetchDashboard arms a timer.
NewCall(op, arg, owner, inst) ==
  [op |-> op, arg |-> arg, owner |-> owner, inst |-> inst, pc |-> "fetch",
   timer |-> (op = "fetchDashboard"), aborted |-> FALSE, elapsed |-> 0,
   status |-> 0]

\* A fetch that is answered from an earlier identical request.
SendRequestOnce(rs, id, req) ==
  IF \E i \in DOMAIN rs : rs[i].req = req
  THEN rs
  ELSE Append(rs, [call |-> id, req |-> req])

\* fetch(url, init): one request on the wire for call `id`.
SendRequest(rs, id, req) == Append(rs, [call |-> id, req |-> req])

\* Calling a client function: st is [calls, requests] before, the result after.
Invoke(st, op, arg, owner, inst) ==
  [calls |-> Append(st.calls, NewCall(op, arg, owner, inst)),
   requests |-> SendRequest(st.requests, Len(st.calls) + 1, RequestOf(op, arg))]

Pending(c) == calls[c].pc \in {"fetch", "json"}

Dashboard(c) == calls[c].op = "fetchDashboard"

\* A clearTimeout that leaves the timer armed.
KeepTimeout(call) == call

\* clearTimeout(timeoutId)
ClearTimeout(call) == [call EXCEPT !.timer = FALSE]

\* ------------------------------------------------------------ the pages

\* A loadData that dispatches fetchDashboard twice.
LoadDataTwice(st) ==
  Invoke(Invoke(st, "fetchDashboard", Undefined, "Index.loadData", 0),
         "fetchDashboard", Undefined, "Index.loadData", 0)

\* Index.loadData: fetchDashboard() with the then / catch / finally of
\* Handle attached (the caller of LoadData sets loading, as setLoading(true)).
LoadData(st) == Invoke(st, "fetchDashboard", Undefined, "Index.loadData", 0)

\* e.date.split('-')[0]
RECURSIVE BeforeDash(_)
BeforeDash(s) ==
  IF s = <<>> \/ Head(s) = "-" THEN <<>> ELSE <<Head(s)>> \o BeforeDash(Tail(s))

\* The years and categories the selects offer: those of the list in state.
YearsOf(list) == {BeforeDash(list[i].date) : i \in DOMAIN list}
CategoriesOf(list) ==
  {IF list[i].ai_category # <<>> THEN list[i].ai_category ELSE list[i].category
     : i \in DOMAIN list} \ {<<>>}
\* Two of the twelve month options, String(i + 1).padStart(2, '0').
MonthOptions == {<<"0", "1">>, <<"1", "2">>}

FilterOptions(k) ==
  {<<>>} \cup
  CASE k = "year" -> YearsOf(expenses)
    [] k = "month" -> MonthOptions
    [] k = "category" -> CategoriesOf(expenses)

\* { year: selectedYear || undefined, month: ..., category: ... }
EffectParams(s) ==
  JObj([year |-> OrElse(JStr(s.year), Undefined),
        month |-> OrElse(JStr(s.month), Undefined),
        category |-> OrElse(JStr(s.category), Undefined)])

\* A then-callback that adds the user's expenses to those already held.
PaidByAppended(list, name) ==
  expenses \o SelectSeq(list, LAMBDA e : e.payer_name = name)

\* data.filter(e => e.payer_name === userName)
PaidBy(list, name) == SelectSeq(list, LAMBDA e : e.payer_name = name)

\* DashboardHeader mounting: a fresh instance, whose effect calls
\* fetchAuthStatus.  st is [calls, requests, header].
MountHeader(st) ==
  LET h == [mounted |-> TRUE, inst |-> st.header.inst + 1, user |-> JNull]
      st1 == Invoke(st, "fetchAuthStatus", Undefined, "Header", h.inst)
  IN [calls |-> st1.calls, requests |-> st1.requests, header |-> h]

\* The page's mount effects.
Mount ==
  /\ page \in Pages
  /\ ~mounted
  /\ mounted' = TRUE
  /\ LET st0 == [calls |-> calls, requests |-> requests, header |-> header]
     IN CASE page = "Index" ->
               \* loadData(): the header is not rendered while loading
               LET st1 == LoadData(st0)
               IN /\ loading' = TRUE
                  /\ calls' = st1.calls
                  /\ requests' = st1.requests
                  /\ header' = header
          [] page = "Expenses" ->
               LET st1 == MountHeader(st0)
                   st2 == Invoke(st1, "fetchExpenses", EffectParams(sel),
                                 "Expenses.effect", 0)
               IN /\ loading' = TRUE
                  /\ calls' = st2.calls
                  /\ requests' = st2.requests
                  /\ header' = st1.header
          [] page = "PaidByMe" ->
               \* the second effect returns at once: userName is still ""
               LET st1 == MountHeader(st0)
                   st2 == Invoke(st1, "fetchAuthStatus", Undefined,
                                 "PaidByMe.auth", 0)
               IN /\ loading' = loading
                  /\ calls' = st2.calls
                  /\ requests' = st2.requests
                  /\ header' = st1.header
  /\ UNCHANGED <<page, settled, data, syncing, expenses, sel, searchTerm, userName,
                 uiEvents>>

\* What the caller's then / catch / finally do once call c settled with
\* `out`; cs is `calls` with c settled.
Handle(c, out, cs) ==
  LET call == calls[c]
      st0 == [calls |-> cs, requests |-> requests, header |-> header]
  IN CASE call.owner = "direct" ->
            /\ calls' = cs
            /\ UNCHANGED <<requests, data, loading, syncing, expenses, userName,
                           header>>
       [] call.owner = "Index.loadData" ->
            \* .then(setData).catch(console.error).finally(() => setLoading(false));
            \* with loading false the header is rendered (again)
            LET st1 == IF header.mounted THEN st0 ELSE MountHeader(st0)
            IN /\ data' = IF out.ok THEN out.value ELSE data
               /\ loading' = FALSE
               /\ calls' = st1.calls
               /\ requests' = st1.requests
               /\ header' = st1.header
               /\ UNCHANGED <<syncing, expenses, userName>>
       [] call.owner = "Index.handleSync" ->
            \* await syncExpenses(30); loadData(); ... finally setSyncing(false)
            IF out.ok
            THEN LET st1 == LoadData(st0)
                 IN /\ loading' = TRUE
                    /\ syncing' = FALSE
                    /\ calls' = st1.calls
                    /\ requests' = st1.requests
                    /\ header' = [header EXCEPT !.mounted = FALSE, !.user = JNull]
                    /\ UNCHANGED <<data, expenses, userName>>
            ELSE /\ syncing' = FALSE
                 /\ calls' = cs
                 /\ UNCHANGED <<requests, data, loading, expenses, userName,
                                header>>
       [] call.owner = "Header" ->
            \* .then(data => setUser(data.user)).catch(console.error); a
            \* setState of an instance no longer mounted changes nothing
            /\ header' = IF out.ok /\ header.mounted /\ call.inst = header.inst
                         THEN [header EXCEPT !.user = Get(out.value, "user")]
                         ELSE header
            /\ calls' = cs
            /\ UNCHANGED <<requests, data, loading, syncing, expenses, userName>>
       [] call.owner = "Expenses.effect" ->
            \* .then(setExpenses).catch(console.error).finally(() => setLoading(false))
            /\ expenses' = IF out.ok THEN out.value.v ELSE expenses
            /\ loading' = FALSE
            /\ calls' = cs
            /\ UNCHANGED <<requests, data, syncing, userName, header>>
       [] call.owner = "PaidByMe.auth" ->
            \* if (data.user) setUserName(data.user.first_name); the second
            \* effect then runs for the changed userName, and returns if it is ""
            LET name == IF out.ok /\ Truthy(Get(out.value, "user"))
                        THEN Get(Get(out.value, "user"), "first_name").v
                        ELSE userName
                st1 == IF name # userName /\ name # <<>>
                       THEN Invoke(st0, "fetchExpenses", EffectParams(sel),
                                   "PaidByMe.effect", 0)
                       ELSE st0
            IN /\ userName' = name
               /\ loading' = IF name # userName /\ name # <<>> THEN TRUE ELSE loading
               /\ calls' = st1.calls
               /\ requests' = st1.requests
               /\ UNCHANGED <<data, syncing, expenses, header>>
       [] call.owner = "PaidByMe.effect" ->
            /\ expenses' = IF out.ok THEN PaidBy(out.value.v, userName) ELSE expenses
            /\ loading' = FALSE
            /\ calls' = cs
            /\ UNCHANGED <<requests, data, syncing, userName, header>>

\* A settling call whose clearTimeout reaches a timer id shared by all calls.
SettleSharedTimer(cs, c, done) ==
  [d \in DOMAIN cs |-> IF d = c THEN done ELSE ClearTimeout(cs[d])]

\* The controller and the timer id are locals of the call (const controller,
\* const timeoutId): settling call c touches the state of call c alone.
SettleIn(cs, c, done) == [cs EXCEPT ![c] = done]

\* The promise of call c settles with `out` (and the caller's handlers run).
\* info: the cause of a failure, the response's status, and its body if read.
Finish(c, out, info) ==
  LET call == calls[c]
      done == [ClearTimeout(call) EXCEPT
                 !.pc = IF out.ok THEN "resolved" ELSE "rejected",
                 !.elapsed = 0, !.status = 0, !.aborted = info.aborted]
  IN /\ settled' =
          [id |-> c, op |-> call.op, arg |-> call.arg, owner |-> call.owner,
           ok |-> out.ok,
           value |-> IF out.ok THEN out.value ELSE Undefined,
           error |-> IF out.ok THEN Undefined ELSE out.error,
           cause |-> info.cause, status |-> info.status,
           body |-> info.body, hasBody |-> info.hasBody,
           late |-> call.elapsed > TimeoutSeconds, aborted |-> info.aborted]
     /\ Handle(c, out, SettleIn(calls, c, done))
     /\ UNCHANGED <<page, mounted, sel, searchTerm, uiEvents>>

Info(cause, status, aborted) ==
  [cause |-> cause, status |-> status, body |-> InvalidBody, hasBody |-> FALSE,
   aborted |-> aborted]

\* ----------------------------------------------------- the caller's moves

\* The arguments a direct caller passes: fetchExpenses with no argument, with
\* an empty object, with empty strings, or with filters; syncExpenses with
\* or without a lookback.
DirectArgs(op) ==
  CASE op = "fetchExpenses" ->
         {Undefined,
          JObj([year |-> JStr(<<>>), month |-> JStr(<<>>)]),
          JObj([year |-> JStr(Text2024), category |-> JStr(<<"a", "&", "b">>)])}
    [] op = "syncExpenses" -> {Undefined, JNum(7)}
    [] OTHER -> {Undefined}

Ops == {"fetchDashboard", "fetchExpenses", "syncExpenses", "fetchAuthStatus"}

\* A caller other than a page calls one of the exported functions.
InvokeDirect(op, arg) ==
  /\ page = "Direct"
  /\ Len(calls) < MaxDirectCalls
  /\ LET st == Invoke([calls |-> calls, requests |-> requests], op, arg,
                      "direct", 0)
     IN /\ calls' = st.calls
        /\ requests' = st.requests
  /\ UNCHANGED <<page, mounted, settled, uiEvents>>
  /\ UNCHANGED pageVars

\* A Sync button that is shown and enabled whatever loading and syncing are.
ClickSyncAnytime ==
  /\ page = "Index"
  /\ mounted
  /\ uiEvents < MaxSyncClicks
  /\ uiEvents' = uiEvents + 1
  /\ syncing' = TRUE
  /\ LET st == Invoke([calls |-> calls, requests |-> requests], "syncExpenses",
                      JNum(DefaultDaysBack), "Index.handleSync", 0)
     IN /\ calls' = st.calls
        /\ requests' = st.requests
  /\ UNCHANGED <<page, mounted, settled, data, loading, expenses, sel,
                 searchTerm, userName, header>>

\* Index.handleSync up to its await.  The Sync button is part of the header,
\* which is rendered only when loading is false, and is disabled when syncing.
ClickSync ==
  /\ page = "Index"
  /\ mounted
  /\ header.mounted
  /\ ~syncing
  /\ uiEvents < MaxSyncClicks
  /\ uiEvents' = uiEvents + 1
  /\ syncing' = TRUE
  /\ LET st == Invoke([calls |-> calls, requests |-> requests], "syncExpenses",
                      JNum(DefaultDaysBack), "Index.handleSync", 0)
     IN /\ calls' = st.calls
        /\ requests' = st.requests
  /\ UNCHANGED <<page, mounted, settled, data, loading, expenses, sel,
                 searchTerm, userName, header>>

\* A select's onChange whose effect does not wait for the user name.
SelectFilterUnguarded(k, v) ==
  /\ page \in {"Expenses", "PaidByMe"}
  /\ mounted
  /\ uiEvents < MaxFilterChanges
  /\ v \in FilterOptions(k) \ {sel[k]}
  /\ uiEvents' = uiEvents + 1
  /\ sel' = [sel EXCEPT ![k] = v]
  /\ LET st == Invoke([calls |-> calls, requests |-> requests],
                      "fetchExpenses", EffectParams(sel'),
                      IF page = "Expenses" THEN "Expenses.effect"
                      ELSE "PaidByMe.effect", 0)
     IN /\ loading' = TRUE
        /\ calls' = st.calls
        /\ requests' = st.requests
  /\ UNCHANGED <<page, mounted, settled, data, syncing, expenses, searchTerm,
                 userName, header>>

\* A select's onChange (k is year, month or category), and the effect that
\* depends on the three selections.
SelectFilter(k, v) ==
  /\ page \in {"Expenses", "PaidByMe"}
  /\ mounted
  /\ uiEvents < MaxFilterChanges
  /\ v \in FilterOptions(k) \ {sel[k]}
  /\ uiEvents' = uiEvents + 1
  /\ sel' = [sel EXCEPT ![k] = v]
  /\ IF page = "PaidByMe" /\ userName = <<>>
     THEN \* if (!userName) return
          UNCHANGED <<calls, requests, loading>>
     ELSE LET st == Invoke([calls |-> calls, requests |-> requests],
                           "fetchExpenses", EffectParams(sel'),
                           IF page = "Expenses" THEN "Expenses.effect"
                           ELSE "PaidByMe.effect", 0)
          IN /\ loading' = TRUE
             /\ calls' = st.calls
             /\ requests' = st.requests
  /\ UNCHANGED <<page, mounted, settled, data, syncing, expenses, searchTerm,
                 userName, header>>

\* ------------------------------------------------- the network and the clock

\* The response (status line and headers) of call c arrives: fetch resolves.
\* fetchDashboard clears its timer; a status outside 200..299 throws.
Respond(c, status) ==
  /\ calls[c].pc = "fetch"
  /\ LET call == calls[c]
         cleared == IF call.op = "fetchDashboard" THEN ClearTimeout(call) ELSE call
     IN IF IsOk(status)
        THEN /\ calls' = [calls EXCEPT ![c] =
                            [cleared EXCEPT !.pc = "json", !.status = status]]
             /\ UNCHANGED <<page, mounted, requests, settled, uiEvents, sel>>
             /\ UNCHANGED pageVars
        ELSE Finish(c, Throw(StatusError(call.op, status)),
                    Info("status", status, call.aborted))

\* The transport fails before any response: fetch rejects with a TypeError.
FetchFails(c) ==
  /\ calls[c].pc = "fetch"
  /\ Finish(c, Throw(TypeError), Info("transport", 0, calls[c].aborted))

\* The body of a success response arrives: response.json() settles.
BodyArrives(c, body) ==
  /\ calls[c].pc = "json"
  /\ LET call == calls[c]
         out == BodyOutcome(call.op, body)
     IN Finish(c, out,
               [cause |-> IF ~body.valid THEN "decode"
                          ELSE IF ~out.ok THEN "nullbody" ELSE "none",
                status |-> call.status, body |-> body, hasBody |-> TRUE,
                aborted |-> call.aborted])

\* The connection breaks while the body is read: response.json() rejects.
BodyFails(c) ==
  /\ calls[c].pc = "json"
  /\ Finish(c, Throw(TypeError), Info("transport", calls[c].status, calls[c].aborted))

\* The 5 s timer of call c fires: controller.abort().  The pending fetch (or
\* body read) rejects with an AbortError; the catch block rethrows it.
TimerFires(c) ==
  /\ calls[c].timer
  /\ calls[c].elapsed >= TimeoutSeconds
  /\ IF Pending(c)
     THEN Finish(c, Throw(AbortError), Info("deadline", calls[c].status, TRUE))
     ELSE /\ calls' = [calls EXCEPT ![c].timer = FALSE, ![c].aborted = TRUE]
          /\ UNCHANGED <<page, mounted, requests, settled, uiEvents, sel>>
          /\ UNCHANGED pageVars

\* One second passes for every unsettled fetchDashboard call.  A timer that
\* is due fires before more time passes.
Tick ==
  /\ \E c \in DOMAIN calls :
       calls[c].op = "fetchDashboard" /\ Pending(c) /\ calls[c].elapsed < MaxElapsed
  /\ \A c \in DOMAIN calls :
       ~(calls[c].timer /\ calls[c].elapsed >= TimeoutSeconds)
  /\ calls' =
       [c \in DOMAIN calls |->
          IF calls[c].op = "fetchDashboard" /\ Pending(c)
               /\ calls[c].elapsed < MaxElapsed
          THEN [calls[c] EXCEPT !.elapsed = @ + 1]
          ELSE calls[c]]
  /\ UNCHANGED <<page, mounted, requests, settled, uiEvents>>
  /\ UNCHANGED pageVars

Next ==
  \/ Mount
  \/ \E op \in Ops : \E arg \in DirectArgs(op) : InvokeDirect(op, arg)
  \/ ClickSync
  \/ \E k \in {"year", "month", "category"} :
       \E v \in FilterOptions(k) : SelectFilter(k, v)
  \/ \E c \in DOMAIN calls : \E status \in Statuses : Respond(c, status)
  \/ \E c \in DOMAIN calls : FetchFails(c)
  \/ \E c \in DOMAIN calls : \E body \in ServerBodies(calls[c].op) :
       BodyArrives(c, body)
  \/ \E c \in DOMAIN calls : BodyFails(c)
  \/ \E c \in DOMAIN calls : TimerFires(c)
  \/ Tick

Spec == Init /\ [][Next]_vars

\* --------------------------------------- the URL of every filter combination

\* What a filter argument of fetchExpenses may be: absent, empty, or text,
\* with the characters a query string gives a meaning to among it.
YearArgs == {Undefined, JStr(<<>>), JStr(Text2024), JStr(<<"0">>)}
MonthArgs == {Undefined, JStr(<<>>), JStr(<<"0", "1">>)}
CategoryArgs ==
  {Undefined, JStr(<<>>), JStr(<<"a", "&", "b">>), JStr(<<"c", " ", "d">>),
   JStr(<<"=", "+", "%">>), JStr(<<"?", "#", "/">>), JStr(<<"F", "o", "o", "d">>),
   JStr(<<"y", "e", "a", "r", "=", "1">>), JStr(<<"&", "&">>)}
FilterArgs ==
  {Undefined} \cup
  {JObj([year |-> y, month |-> m, category |-> c]) :
     y \in YearArgs, m \in MonthArgs, c \in CategoryArgs}

InitUrl == Init /\ page = "Direct"

\* One call of fetchExpenses with any of the filter combinations.
FetchExpensesWith(arg) == calls = <<>> /\ InvokeDirect("fetchExpenses", arg)

NextUrl == \E arg \in FilterArgs : FetchExpensesWith(arg)

SpecUrl == InitUrl /\ [][NextUrl]_vars

\* ------------------------------------------ the body of every sync lookback

\* The lookbacks a caller may pass to syncExpenses(daysBack: number): none,
\* the default, another window, zero, a negative number.
SyncArgs == {Undefined, JNum(DefaultDaysBack), JNum(7), JNum(0), JNum(0 - 1)}

InitSync == Init /\ page = "Direct"

\* A call of syncExpenses with any of the lookbacks.
SyncExpensesWith(arg) == InvokeDirect("syncExpenses", arg)

NextSync ==
  \/ \E arg \in SyncArgs : SyncExpensesWith(arg)
  \/ \E c \in DOMAIN calls : \E status \in Statuses : Respond(c, status)
  \/ \E c \in DOMAIN calls : FetchFails(c)
  \/ \E c \in DOMAIN calls : \E body \in ServerBodies(calls[c].op) :
       BodyArrives(c, body)
  \/ \E c \in DOMAIN calls : BodyFails(c)

SpecSync == InitSync /\ [][NextSync]_vars

\* ------------------------------------------------------- the search box

Uppers ==
  <<"A", "B", "C", "D", "E", "F", "G", "H", "I", "J", "K", "L", "M",
    "N", "O", "P", "Q", "R", "S", "T", "U", "V", "W", "X", "Y", "Z">>
Lowers ==
  <<"a", "b", "c", "d", "e", "f", "g", "h", "i", "j", "k", "l", "m",
    "n", "o", "p", "q", "r", "s", "t", "u", "v", "w", "x", "y", "z">>

\* s.toLowerCase(), for text of ASCII characters.
ToLowerCase(s) ==
  [i \in DOMAIN s |->
     IF \E k \in DOMAIN Uppers : Uppers[k] = s[i]
     THEN Lowers[CHOOSE k \in DOMAIN Uppers : Uppers[k] = s[i]]
     ELSE s[i]]

\* s.includes(t)
Includes(s, t) ==
  \E i \in 0..(Len(s) - Len(t)) : SubSeq(s, i + 1, i + Len(t)) = t

\* The filter callback with the term compared as typed, not lowercased.
MatchesTermAsTyped(e, term) ==
  LET aiCat == IF e.ai_category # <<>> THEN e.ai_category ELSE e.category
  IN \/ Includes(ToLowerCase(e.description), term)
     \/ Includes(ToLowerCase(aiCat), term)

\* const aiCat = e.ai_category || e.category || '';
\* description.toLowerCase().includes(searchTerm.toLowerCase()) || aiCat...
Matches(e, term) ==
  LET aiCat == IF e.ai_category # <<>> THEN e.ai_category ELSE e.category
  IN \/ Includes(ToLowerCase(e.description), ToLowerCase(term))
     \/ Includes(ToLowerCase(aiCat), ToLowerCase(term))

\* const filteredExpenses = expenses.filter(...): the rows of the table.
FilteredExpenses == SelectSeq(expenses, LAMBDA e : Matches(e, searchTerm))

\* What is typed into the search box: nothing, a capital letter of a
\* description, an AI category in mixed case, a character of a category.
SearchTerms == {<<>>, <<"T">>, <<"G", "o">>, <<"&">>}

\* The search input's onChange: setSearchTerm(e.target.value).  searchTerm
\* is no dependency of an effect.
TypeSearch(term) ==
  /\ page \in {"Expenses", "PaidByMe"}
  /\ mounted
  /\ uiEvents < MaxFilterChanges
  /\ term # searchTerm
  /\ uiEvents' = uiEvents + 1
  /\ searchTerm' = term
  /\ UNCHANGED <<page, mounted, calls, requests, settled, data, loading, syncing,
                 expenses, sel, userName, header>>

\* The three pages of the application, search box included.
InitApp == Init /\ page \in Pages

NextApp ==
  \/ Mount
  \/ ClickSync
  \/ \E k \in {"year", "month", "category"} :
       \E v \in FilterOptions(k) : SelectFilter(k, v)
  \/ \E term \in SearchTerms : TypeSearch(term)
  \/ \E c \in DOMAIN calls : \E status \in Statuses : Respond(c, status)
  \/ \E c \in DOMAIN calls : FetchFails(c)
  \/ \E c \in DOMAIN calls : \E body \in ServerBodies(calls[c].op) :
       BodyArrives(c, body)
  \/ \E c \in DOMAIN calls : BodyFails(c)
  \/ \E c \in DOMAIN calls : TimerFires(c)
  \/ Tick

SpecApp == InitApp /\ [][NextApp]_vars

\* -------------------------------------------------- the category chart

\* <TopCategoryChart data={data?.categories || []} />
ChartData == OrElse(OptGet(data, "categories"), JList(<<>>)).v

\* data.reduce((sum, c) => sum + c.total, 0)
RECURSIVE SumTotals(_)
SumTotals(l) == IF l = <<>> THEN 0 ELSE l[1].total + SumTotals(Tail(l))

\* data.slice(0, 8)
Shown(l) ==
  SubSeq(l, 1, IF Len(l) < ShownCategories THEN Len(l) ELSE ShownCategories)

\* The total taken over the categories shown only.
ChartTotalOfShown(l) == SumTotals(Shown(l))

\* const total = data.reduce(...): over the whole list, shown or not.
ChartTotal(l) == SumTotals(l)

\* ((part / total) * 100).toFixed(1), for whole numbers part >= 0, total > 0:
\* the nearest tenth (the half up), written with one decimal.
ToFixed1Percent(part, total) ==
  LET tenths == (2000 * part + total) \div (2 * total)
  IN NatText(tenths \div 10) \o <<".">> \o NatText(tenths % 10)

\* percentage: total > 0 ? ((c.total / total) * 100).toFixed(1) : "0"
Percentage(part, total) ==
  IF total > 0 THEN ToFixed1Percent(part, total) ELSE <<"0">>

\* const categories = data.slice(0, 8).map(...)
ChartCategories ==
  LET total == ChartTotal(ChartData)
      shown == Shown(ChartData)
  IN [i \in DOMAIN shown |->
        [name |-> shown[i].category, rawAmount |-> shown[i].total,
         percentage |-> Percentage(shown[i].total, total)]]

\* The category aggregates of a snapshot, from their totals.
CategoryRows(totals) ==
  [i \in DOMAIN totals |->
     [category |-> <<"c">> \o NatText(i), total |-> totals[i], count |-> 1]]

\* The totals a snapshot may carry: every list within the bounds, the list
\* 500, 300, 200, and a list of more categories than the chart shows.
TotalsLists ==
  UNION {[1..n -> 0..MaxTotal] : n \in 0..MaxCategories}
    \cup {<<500, 300, 200>>, [i \in 1..(ShownCategories + 1) |-> 1]}

ChartBodies ==
  {Body(Snapshot(1))} \cup
  {Body(JObj([total_expenses |-> JNum(SumTotals(CategoryRows(ts))),
              categories |-> JList(CategoryRows(ts))])) : ts \in TotalsLists}

InitChart == Init /\ page = "Index"

\* The dashboard page up to its first snapshot, the snapshot carrying any of
\* the category lists.
NextChart ==
  \/ Mount
  \/ \E c \in DOMAIN calls : \E status \in Statuses : Respond(c, status)
  \/ \E c \in DOMAIN calls : \E body \in ChartBodies :
       Dashboard(c) /\ BodyArrives(c, body)

SpecChart == InitChart /\ [][NextChart]_vars

\* ------------------------------------------- the lists of the Paid By Me page

\* A second expense paid by the user.
Expense3 ==
  [id |-> 3, description |-> <<"b", "u", "s">>,
   date |-> Text2024 \o <<"-", "0", "3", "-", "0", "5">>,
   category |-> <<"a", "&", "b">>, ai_category |-> <<>>,
   payer_name |-> TextMe]

\* Expense lists with none, one and two expenses of the user, the others'
\* before, between and after them.
PaidLists ==
  ExpenseLists \cup {<<Expense3, Expense2, Expense1>>, <<Expense1, Expense3>>}

PaidBodies(op) ==
  IF op = "fetchExpenses"
  THEN {Body(JObj([expenses |-> JList(l), count |-> JNum(Len(l)),
                   success |-> JBool(TRUE)])) : l \in PaidLists}
  ELSE ServerBodies(op)

InitPaid == Init /\ page = "PaidByMe"

\* The Paid By Me page: its mount, its selects, and the responses.
NextPaid ==
  \/ Mount
  \/ \E k \in {"year", "month", "category"} :
       \E v \in FilterOptions(k) : SelectFilter(k, v)
  \/ \E c \in DOMAIN calls : \E status \in Statuses : Respond(c, status)
  \/ \E c \in DOMAIN calls : \E body \in PaidBodies(calls[c].op) :
       BodyArrives(c, body)

SpecPaid == InitPaid /\ [][NextPaid]_vars

\* ---------------------------------------------- reading a request back

\* How the receiver of a request reads its query string: the pairs between
\* "&", name and value around the first "=", "+" a space, %XX the character.
FirstIndex(s, ch) ==
  IF \E i \in DOMAIN s : s[i] = ch
  THEN CHOOSE i \in DOMAIN s : s[i] = ch /\ \A j \in 1..(i - 1) : s[j] # ch
  ELSE 0

RECURSIVE SplitOn(_, _)
SplitOn(s, ch) ==
  LET i == FirstIndex(s, ch)
  IN IF i = 0 THEN <<s>>
     ELSE <<SubSeq(s, 1, i - 1)>> \o SplitOn(SubSeq(s, i + 1, Len(s)), ch)

RECURSIVE FormDecode(_)
FormDecode(s) ==
  IF s = <<>> THEN <<>>
  ELSE IF Head(s) = "+" THEN <<" ">> \o FormDecode(Tail(s))
  ELSE IF Head(s) = "%" /\ Len(s) >= 3
            /\ \E c \in DOMAIN PercentCode : PercentCode[c] = SubSeq(s, 1, 3)
       THEN <<CHOOSE c \in DOMAIN PercentCode : PercentCode[c] = SubSeq(s, 1, 3)>>
              \o FormDecode(SubSeq(s, 4, Len(s)))
  ELSE <<Head(s)>> \o FormDecode(Tail(s))

QueryPair(seg) ==
  LET i == FirstIndex(seg, "=")
  IN IF i = 0 THEN <<FormDecode(seg), <<>>>>
     ELSE <<FormDecode(SubSeq(seg, 1, i - 1)),
            FormDecode(SubSeq(seg, i + 1, Len(seg)))>>

\* The (name, value) pairs of a URL's search part, "" or "?...".
ParseQuery(search) ==
  IF search = <<>> THEN <<>>
  ELSE LET segs == SplitOn(Tail(search), "&")
       IN [i \in DOMAIN segs |-> QueryPair(segs[i])]

\* The filter k of a fetchExpenses argument, when it is given and not empty.
IsGiven(arg, k) ==
  /\ arg.t = "obj"
  /\ k \in DOMAIN arg.f
  /\ arg.f[k].t = "str"
  /\ arg.f[k].v # <<>>

GivenFilters(arg) ==
  LET one(k) == IF IsGiven(arg, k) THEN << <<ParamName(k), arg.f[k].v>> >> ELSE <<>>
  IN one("year") \o one("month") \o one("category")

\* The call a request was issued for.
CallOf(i) == calls[requests[i].call]

\* ------------------------------------------------------------- properties

Settled == settled.id # 0
Rejected == Settled /\ ~settled.ok
Resolved == Settled /\ settled.ok

\* C1: every fetchDashboard call settles no later than 5 seconds after it
\* was dispatched, also when the response arrives in time and the body late
\* or never: no call is unsettled past the deadline, none settles past it.
C1_DashboardSettlesWithinDeadline ==
  /\ \A c \in DOMAIN calls :
       Dashboard(c) /\ Pending(c) => calls[c].elapsed <= TimeoutSeconds
  /\ Settled /\ settled.op = "fetchDashboard" => ~settled.late

\* C2: a fetchDashboard request the server has not answered 5 seconds after
\* dispatch is aborted and the call rejects with the failure of the timeout
\* (the AbortError of its own abort); the abort is never issued for a call
\* whose response arrived before the deadline.
C2_AbortOnlyWithoutResponse ==
  /\ \A c \in DOMAIN calls :
       /\ Dashboard(c) /\ calls[c].pc = "fetch"
            => calls[c].timer /\ calls[c].elapsed <= TimeoutSeconds
       /\ calls[c].timer => Dashboard(c) /\ calls[c].pc = "fetch"
       /\ calls[c].aborted => Dashboard(c) /\ calls[c].pc = "rejected"
       /\ calls[c].pc = "json" => ~calls[c].aborted
  /\ Settled =>
       /\ settled.aborted <=> settled.cause = "deadline"
       /\ settled.aborted =>
            /\ settled.op = "fetchDashboard"
            /\ ~settled.ok
            /\ settled.error = AbortError
            /\ settled.status = 0
            /\ ~settled.hasBody
            /\ ~settled.late
       /\ settled.status # 0 => ~settled.aborted

\* C2 witness: a call was aborted at its deadline and rejected.
C2_Witness ==
  /\ Rejected
  /\ settled.aborted
  /\ settled.error = AbortError
  /\ calls[settled.id].aborted

\* The state the page holds from its data request.
DataOwners == {"Index.loadData", "Expenses.effect", "PaidByMe.effect"}

\* C3: the list or snapshot in state is the one of the most recently
\* dispatched request: a response of an older request that arrives after a
\* newer request's response was applied is discarded, not applied.
C3_StaleResponseDiscarded ==
  [][(/\ settled'.id # settled.id
      /\ settled'.ok
      /\ settled'.owner \in DataOwners
      /\ \E d \in DOMAIN calls :
           /\ d > settled'.id
           /\ calls[d].owner = settled'.owner
           /\ calls[d].pc = "resolved")
       => data' = data /\ expenses' = expenses]_vars

\* C4: the request of fetchExpenses carries as query parameters exactly the
\* filters that are given and non-empty, with their values, and none for an
\* absent or empty filter; with no such filter the URL has no query string.
C4_QueryIsExactlyTheGivenFilters ==
  \A i \in DOMAIN requests :
    CallOf(i).op = "fetchExpenses" =>
      LET url == requests[i].req.url
          given == GivenFilters(CallOf(i).arg)
      IN /\ url.path = "/api/expenses"
         /\ ParseQuery(url.search) = given
         /\ given = <<>> <=> url.search = <<>>
         /\ given # <<>> => Head(url.search) = "?"

\* C4 witness: a request for a year, an empty month and a category with "&".
C4_Witness ==
  \E i \in DOMAIN requests :
    /\ CallOf(i).arg =
         JObj([year |-> JStr(Text2024), month |-> JStr(<<>>),
               category |-> JStr(<<"a", "&", "b">>)])
    /\ Len(ParseQuery(requests[i].req.url.search)) = 2

\* The parsed body of the settled call, when it is a JSON object.
BodyIsObject == settled.hasBody /\ settled.body.valid /\ settled.body.json.t = "obj"
BodyJson == settled.body.json

\* C5: fetchDashboard returns the inner snapshot of a body that wraps it
\* under `dashboard`, a bare snapshot unchanged, and unwrapping what it
\* returned yields the same snapshot again.
C5_DashboardUnwrap ==
  Settled /\ settled.op = "fetchDashboard" /\ BodyIsObject =>
    /\ "dashboard" \in DOMAIN BodyJson.f /\ BodyJson.f.dashboard \in Snapshots
         => settled.ok /\ settled.value = BodyJson.f.dashboard
    /\ BodyJson \in Snapshots => settled.ok /\ settled.value = BodyJson
    /\ settled.ok => /\ settled.value \in Snapshots
                     /\ UnwrapDashboard(settled.value) = settled.value

\* C5 witness: a wrapped snapshot was returned unwrapped.
C5_Witness ==
  /\ Resolved
  /\ settled.op = "fetchDashboard"
  /\ BodyIsObject
  /\ "dashboard" \in DOMAIN BodyJson.f
  /\ settled.value = BodyJson.f.dashboard

\* C6: a success response whose body object has no `expenses` field makes
\* fetchExpenses resolve with the empty list, not reject; with the field
\* holding a list it resolves with exactly that list.
C6_MissingExpensesIsEmptyList ==
  Settled /\ settled.op = "fetchExpenses" /\ BodyIsObject =>
    /\ "expenses" \notin DOMAIN BodyJson.f
         => settled.ok /\ settled.value = JList(<<>>)
    /\ "expenses" \in DOMAIN BodyJson.f /\ BodyJson.f.expenses.t = "list"
         => settled.ok /\ settled.value = BodyJson.f.expenses

\* C6 witness: a body without the field resolved with the empty list.
C6_Witness ==
  /\ Resolved
  /\ settled.op = "fetchExpenses"
  /\ BodyIsObject
  /\ "expenses" \notin DOMAIN BodyJson.f
  /\ settled.value = JList(<<>>)

\* C7: a response with a non-success status makes the call reject with a
\* failure that carries that status, and no value is returned.
C7_StatusFailureCarriesStatus ==
  Settled /\ settled.status # 0 /\ ~IsOk(settled.status) =>
    /\ ~settled.ok
    /\ settled.value = Undefined
    /\ "status" \in DOMAIN settled.error
    /\ settled.error.status = settled.status

\* The kind a caller reads off a rejected value, and the kind each cause of
\* failure is to give.
KindOf(err) ==
  CASE err.name = "AbortError" -> "Timeout"
    [] err.name = "Error" -> "RequestFailed"
    [] err.name = "SyntaxError" -> "DecodeError"
    [] err.name = "TypeError" -> "NetworkError"
KindFor(cause) ==
  CASE cause = "deadline" -> "Timeout"
    [] cause = "status" -> "RequestFailed"
    [] cause \in {"decode", "nullbody"} -> "DecodeError"
    [] cause = "transport" -> "NetworkError"

\* C8: every failure is of exactly one of the kinds Timeout, RequestFailed,
\* DecodeError, NetworkError, the one its cause determines, so that the
\* rejected value tells any two causes apart.
C8_FailureKindTellsCause ==
  Rejected => KindOf(settled.error) = KindFor(settled.cause)

\* C9: the client never recovers from a failure: when the transport fails,
\* the status is non-success, the body cannot be decoded or the dashboard
\* deadline passes, the promise rejects and never resolves.
C9_FailureAlwaysRejects ==
  Settled =>
    /\ settled.cause # "none" => ~settled.ok
    /\ settled.status # 0 /\ ~IsOk(settled.status) => ~settled.ok
    /\ settled.hasBody /\ ~settled.body.valid => ~settled.ok
    /\ settled.op = "fetchDashboard" /\ settled.late => ~settled.ok

RequestsOf(c) == {i \in DOMAIN requests : requests[i].call = c}

\* C10: each invocation of a client operation performs exactly one network
\* request whatever its outcome: none is retried, none answered without a
\* request, none merged with another outstanding call.
C10_OneRequestPerCall ==
  /\ \A c \in DOMAIN calls : Cardinality(RequestsOf(c)) = 1
  /\ \A i \in DOMAIN requests : requests[i].call \in DOMAIN calls

\* C10 witness: a rejected call and another call of the same operation with
\* the same arguments, two requests in all.
C10_Witness ==
  \E c, d \in DOMAIN calls :
    /\ c # d
    /\ calls[c].pc = "rejected"
    /\ Pending(d)
    /\ calls[c].op = calls[d].op
    /\ calls[c].arg = calls[d].arg
    /\ Len(requests) = 2

\* What of a call makes its outcome: everything but the seconds it has waited.
CallCore(call) == [call EXCEPT !.elapsed = 0]

\* C11: concurrent calls are independent: the timeout, abort, failure or
\* completion of one call changes no other call (each fetchDashboard call
\* keeps its own timer and abort flag), and a call's result depends on its
\* own response only: the same operation given the same response settles
\* the same way, whatever the other calls did.
C11_CallsAreIndependent ==
  [][/\ Cardinality({d \in DOMAIN calls :
                       CallCore(calls'[d]) # CallCore(calls[d])}) <= 1
     /\ settled'.id # settled.id =>
          \A d \in DOMAIN calls : d # settled'.id => calls'[d] = calls[d]
     /\ (/\ Settled
         /\ settled'.id # settled.id
         /\ settled'.op = settled.op
         /\ settled'.cause = settled.cause
         /\ settled'.status = settled.status
         /\ settled'.hasBody = settled.hasBody
         /\ settled'.body = settled.body)
          => /\ settled'.ok = settled.ok
             /\ settled'.value = settled.value
             /\ settled'.error = settled.error]_vars

\* C11 witness: of two overlapping fetchDashboard calls one was aborted at
\* its deadline while the other, dispatched later, still waits with its own
\* timer armed and its own deadline ahead.
C11_Witness ==
  \E c, d \in DOMAIN calls :
    /\ c # d
    /\ Dashboard(c) /\ Dashboard(d)
    /\ calls[c].pc = "rejected" /\ calls[c].aborted
    /\ calls[d].pc = "fetch" /\ calls[d].timer /\ ~calls[d].aborted
    /\ calls[d].elapsed < TimeoutSeconds

\* ------------------------------------------------------- the sync request

\* How the receiver of a sync request reads its body: the number after
\* "days_back" in a JSON object of that one member, undefined when the text
\* is anything else.
DaysBackPrefix ==
  <<"{", "\"", "d", "a", "y", "s", "_", "b", "a", "c", "k", "\"", ":">>

IsDigits(s) ==
  s # <<>> /\ \A i \in DOMAIN s : \E d \in DOMAIN DigitChars : DigitChars[d] = s[i]

DigitValue(ch) == (CHOOSE d \in DOMAIN DigitChars : DigitChars[d] = ch) - 1

RECURSIVE TextNat(_)
TextNat(s) ==
  IF s = <<>> THEN 0
  ELSE TextNat(SubSeq(s, 1, Len(s) - 1)) * 10 + DigitValue(s[Len(s)])

ReadNumber(s) ==
  IF IsDigits(s) THEN JNum(TextNat(s))
  ELSE IF s # <<>> /\ s[1] = "-" /\ IsDigits(Tail(s))
       THEN JNum(0 - TextNat(Tail(s)))
       ELSE Undefined

ReadDaysBack(text) ==
  LET n == Len(DaysBackPrefix)
  IN IF /\ Len(text) > n + 1
        /\ SubSeq(text, 1, n) = DaysBackPrefix
        /\ text[Len(text)] = "}"
     THEN ReadNumber(SubSeq(text, n + 1, Len(text) - 1))
     ELSE Undefined

SyncRequests == {i \in DOMAIN requests : CallOf(i).op = "syncExpenses"}

\* C12: syncExpenses issues one POST to /api/sync whose JSON body is exactly
\* {days_back: N} for the lookback N it was given, N = 30 when it was given
\* none; once a success response's JSON body has arrived it resolves with
\* that payload unchanged, new_expenses being the count the server sent.
C12_SyncBodyAndPayload ==
  /\ \A i \in SyncRequests :
       /\ requests[i].req.method = "POST"
       /\ requests[i].req.url.path = "/api/sync"
       /\ requests[i].req.url.search = <<>>
       /\ requests[i].req.body.t = "str"
       /\ ReadDaysBack(requests[i].req.body.v) =
            (IF CallOf(i).arg = Undefined THEN JNum(30) ELSE CallOf(i).arg)
  /\ (Settled /\ settled.op = "syncExpenses" /\ settled.hasBody /\ settled.body.valid)
       => /\ settled.ok
          /\ settled.value = settled.body.json
          /\ settled.body.json.t = "obj" =>
               Get(settled.value, "new_expenses") = Get(settled.body.json, "new_expenses")

\* C12 witness: a sync called without a lookback sent {"days_back":30} and
\* resolved with the server's count of two new expenses, after a sync called
\* with a lookback of 7 sent {"days_back":7}.
C12_Witness ==
  /\ Resolved /\ settled.op = "syncExpenses" /\ settled.arg = Undefined
  /\ Get(settled.value, "new_expenses") = JNum(2)
  /\ \E i \in SyncRequests :
       /\ requests[i].call = settled.id
       /\ ReadDaysBack(requests[i].req.body.v) = JNum(30)
  /\ \E i \in SyncRequests :
       /\ CallOf(i).arg = JNum(7)
       /\ requests[i].call < settled.id
       /\ ReadDaysBack(requests[i].req.body.v) = JNum(7)

\* C13: the lookback must be a positive integer: no sync request is ever
\* sent whose days_back is zero, negative or not an integer.
C13_SyncLookbackIsPositive ==
  \A i \in SyncRequests :
    LET sent == ReadDaysBack(requests[i].req.body.v)
    IN sent.t = "num" /\ sent.v > 0

\* C14: fetchAuthStatus resolves with the authenticated flag of the response
\* and the user's record; when the response carries no user field, or a
\* null one, the user is null and the call does not reject for it.
C14_AuthUserOrNull ==
  Settled /\ settled.op = "fetchAuthStatus" /\ BodyIsObject =>
    /\ settled.ok
    /\ DOMAIN settled.value.f = {"authenticated", "user"}
    /\ settled.value.f.authenticated = Get(BodyJson, "authenticated")
    /\ settled.value.f.user =
         (IF Get(BodyJson, "user") \in {Undefined, JNull} THEN JNull
          ELSE Get(BodyJson, "user"))

\* C14 witness: an auth status response without a user field resolved with
\* authenticated false and user null.
C14_Witness ==
  /\ Resolved /\ settled.op = "fetchAuthStatus" /\ BodyIsObject
  /\ "user" \notin DOMAIN BodyJson.f
  /\ settled.value.f.user = JNull
  /\ settled.value.f.authenticated = JBool(FALSE)

\* ------------------------------------------------- calls without a deadline

NoDeadline(c) == calls[c].op # "fetchDashboard"
EffectOwners == {"Expenses.effect", "PaidByMe.effect"}

\* No timer and no abort signal belong to a call other than fetchDashboard,
\* and a page whose calls were never answered shows its waiting state.
WaitsWithoutDeadline ==
  /\ \A c \in DOMAIN calls : NoDeadline(c) =>
       /\ ~calls[c].timer /\ ~calls[c].aborted /\ calls[c].elapsed = 0
       /\ \A i \in RequestsOf(c) : ~requests[i].req.signal
  /\ (\E c \in DOMAIN calls : calls[c].owner = "Index.handleSync" /\ Pending(c))
       => syncing
  /\ (/\ page \in {"Expenses", "PaidByMe"}
      /\ \A c \in DOMAIN calls : calls[c].owner \in EffectOwners => Pending(c))
       => loading

\* C15: only fetchDashboard has a deadline.  A fetchExpenses, syncExpenses or
\* fetchAuthStatus call has no timer and no abort signal; it leaves its wait
\* only when a response, a body or a transport failure arrives for it, never
\* because time passed or another call settled; and while the server has
\* answered none of its calls the page stays waiting (the expense pages with
\* loading true, the dashboard page with syncing true).
C15_OnlyDashboardHasDeadline ==
  /\ []WaitsWithoutDeadline
  /\ [][\A c \in DOMAIN calls : NoDeadline(c) /\ calls'[c] # calls[c] =>
          \/ /\ calls[c].pc = "fetch" /\ calls'[c].pc = "json"
             /\ IsOk(calls'[c].status)
          \/ /\ Pending(c) /\ calls'[c].pc \in {"resolved", "rejected"}
             /\ settled'.id = c
             /\ settled'.cause # "deadline" /\ ~settled'.aborted]_vars

\* C15 witness: a fetchExpenses call still waits for its response although a
\* fetchDashboard call dispatched after it was already aborted at its
\* deadline.
C15_Witness ==
  \E c, d \in DOMAIN calls :
    /\ c < d
    /\ calls[c].op = "fetchExpenses" /\ calls[c].pc = "fetch"
    /\ Dashboard(d) /\ calls[d].pc = "rejected" /\ calls[d].aborted
    /\ settled.id = d /\ settled.cause = "deadline"

\* ------------------------------------------------- what a rejection changes

\* The flag a caller's finally block resets: loading for a load of the
\* dashboard or of an expense list, syncing for a sync.
FlagReset(owner) ==
  CASE owner \in {"Index.loadData"} \cup EffectOwners -> ~loading'
    [] owner = "Index.handleSync" -> ~syncing' /\ loading' = loading
    [] OTHER -> loading' = loading /\ syncing' = syncing

\* The step in which a call of a component settles by rejecting.
RejectsNow == settled'.id # settled.id /\ ~settled'.ok /\ settled'.owner # "direct"

HeldDataUnchanged ==
  /\ data' = data
  /\ expenses' = expenses
  /\ userName' = userName
  /\ header'.user = header.user

\* A rejection is only logged: data kept, the call's own flag reset.
RejectionOnlyLogs == RejectsNow => HeldDataUnchanged /\ FlagReset(settled'.owner)

\* C16: when a dashboard, auth-status, expense-list or sync call of a
\* component rejects, the component only logs: the snapshot, the user and the
\* expense list it held are unchanged, and the page is not left waiting: its
\* loading or syncing flag is false unless another call is still in flight.
C16_RejectionResetsWaiting ==
  [][/\ RejectionOnlyLogs
     /\ (RejectsNow /\ \A c \in DOMAIN calls' : calls'[c].pc \notin {"fetch", "json"})
          => ~loading' /\ ~syncing']_vars

\* The same for every caller but PaidByMe's auth-status effect.
RejectionResetsWaitingElsewhere ==
  [][/\ RejectionOnlyLogs
     /\ (/\ RejectsNow
         /\ \A c \in DOMAIN calls' : calls'[c].pc \notin {"fetch", "json"}
         /\ ~(page = "PaidByMe" /\ userName = <<>>))
          => ~loading' /\ ~syncing']_vars

\* ------------------------------------------------------- local filtering

\* Two characters that are the same letter, whatever their case.
SameLetter(a, b) ==
  a = b \/ \E k \in DOMAIN Uppers : {a, b} = {Uppers[k], Lowers[k]}

ContainsIgnoringCase(text, term) ==
  \E k \in 0..(Len(text) - Len(term)) :
    \A j \in 1..Len(term) : SameLetter(text[k + j], term[j])

CategoryLabel(e) == IF e.ai_category # <<>> THEN e.ai_category ELSE e.category

ShouldShow(e) ==
  \/ ContainsIgnoringCase(e.description, searchTerm)
  \/ ContainsIgnoringCase(CategoryLabel(e), searchTerm)

\* C17: local filtering never reaches the server or the stored data: a
\* change of the search term dispatches no request and leaves the stored
\* expense list unchanged; the rows shown are exactly the stored expenses
\* whose description or category label (AI category when set, else category)
\* contains the term, case ignored; and the only request that is not a GET
\* is the POST of a sync.
C17_SearchIsLocal ==
  /\ [](FilteredExpenses = SelectSeq(expenses, ShouldShow))
  /\ [](\A i \in DOMAIN requests :
          requests[i].req.method # "GET" =>
            /\ requests[i].req.method = "POST"
            /\ requests[i].req.url.path = "/api/sync"
            /\ CallOf(i).op = "syncExpenses")
  /\ [][searchTerm' # searchTerm =>
          /\ requests' = requests
          /\ calls' = calls
          /\ expenses' = expenses]_vars

\* C17 witness: of the two stored expenses the table shows the one whose
\* category contains the term typed, the other's AI category standing in
\* for its category; one request was sent, before the term was typed.
C17_Witness ==
  /\ page = "Expenses" /\ ~loading
  /\ searchTerm = <<"&">>
  /\ expenses = <<Expense2, Expense1>>
  /\ FilteredExpenses = <<Expense1>>
  /\ \A i \in DOMAIN requests : requests[i].req.method = "GET"

\* ------------------------------------------------- the chart's percentages

\* The tenths a percentage text stands for: "42.9" is 429, "0" is 0.
ReadTenths(text) ==
  LET i == FirstIndex(text, ".")
  IN IF i = 0 THEN 10 * TextNat(text)
     ELSE 10 * TextNat(SubSeq(text, 1, i - 1)) + TextNat(SubSeq(text, i + 1, Len(text)))

OneDecimal(text) ==
  /\ Len(text) >= 3
  /\ FirstIndex(text, ".") = Len(text) - 1
  /\ IsDigits(SubSeq(text, 1, Len(text) - 2))
  /\ IsDigits(<<text[Len(text)]>>)

RECURSIVE SumOf(_)
SumOf(ns) == IF ns = <<>> THEN 0 ELSE Head(ns) + SumOf(Tail(ns))

AllTotals == [i \in DOMAIN ChartData |-> ChartData[i].total]
ShownTenths ==
  [i \in DOMAIN ChartCategories |-> ReadTenths(ChartCategories[i].percentage)]

\* Every category shown carries its share of the sum of all totals, times
\* 100, to one decimal; "0" when that sum is 0.
PercentagesAreShares ==
  LET sum == SumOf(AllTotals)
  IN /\ Len(ChartCategories) =
          (IF Len(ChartData) < 8 THEN Len(ChartData) ELSE 8)
     /\ \A i \in DOMAIN ChartCategories :
          /\ ChartCategories[i].name = ChartData[i].category
          /\ IF sum = 0 THEN ChartCategories[i].percentage = <<"0">>
             ELSE /\ OneDecimal(ChartCategories[i].percentage)
                  /\ 2 * ShownTenths[i] * sum - 2000 * AllTotals[i] <= sum
                  /\ 2000 * AllTotals[i] - 2 * ShownTenths[i] * sum <= sum
     /\ AllTotals = <<500, 300, 200>> =>
          [i \in 1..3 |-> ChartCategories[i].percentage]
            = << <<"5", "0", ".", "0">>, <<"3", "0", ".", "0">>,
                 <<"2", "0", ".", "0">> >>

\* C18 as stated: each percentage shown is the category's total over the sum
\* of all totals, times 100, to one decimal (500, 300, 200 give 50.0, 30.0,
\* 20.0), 0 when the sum is 0, and the percentages shown never sum to more
\* than 100.
C18_PercentagesSumAtMost100 ==
  /\ PercentagesAreShares
  /\ SumOf(ShownTenths) <= 1000

\* C18 amended: each percentage shown is the category's total over the sum
\* of all totals, times 100, rounded to one decimal (500, 300, 200 give
\* 50.0, 30.0, 20.0), 0 when the sum is 0; rounded, the percentages shown
\* sum to at most 100 plus 0.05 for each category shown.
C18_PercentagesAreRoundedShares ==
  /\ PercentagesAreShares
  /\ 2 * SumOf(ShownTenths) <= 2000 + Len(ChartCategories)

\* C18 witness: totals 3, 3, 1 are shown as 42.9, 42.9 and 14.3, which sum
\* to 100.1.
C18_Witness ==
  /\ ~loading
  /\ AllTotals = <<3, 3, 1>>
  /\ ShownTenths = <<429, 429, 143>>

\* ------------------------------------------------------ sync on the dashboard

SyncPending ==
  \E c \in DOMAIN calls : calls[c].owner = "Index.handleSync" /\ Pending(c)
LoadsPending ==
  {c \in DOMAIN calls : calls[c].owner = "Index.loadData" /\ Pending(c)}

SyncSettlesNow == settled'.id # settled.id /\ settled'.owner = "Index.handleSync"

\* C19: on the dashboard page a click on Sync sets syncing and dispatches
\* the sync; when the sync resolves exactly one dashboard reload is
\* dispatched and loading is true by the time syncing is false again; when
\* it rejects no reload is dispatched and the snapshot is unchanged; syncing
\* is true exactly while the sync call is unsettled.
C19_SyncThenReload ==
  /\ [](page = "Index" => (syncing <=> SyncPending))
  /\ [][/\ (page = "Index" /\ uiEvents' # uiEvents) =>
             /\ syncing' /\ ~syncing
             /\ Len(calls') = Len(calls) + 1
             /\ calls'[Len(calls')].op = "syncExpenses"
             /\ calls'[Len(calls')].arg = JNum(30)
        /\ (SyncSettlesNow /\ settled'.ok) =>
             /\ Len(calls') = Len(calls) + 1
             /\ Len(requests') = Len(requests) + 1
             /\ calls'[Len(calls')].op = "fetchDashboard"
             /\ calls'[Len(calls')].owner = "Index.loadData"
             /\ requests'[Len(requests')].call = Len(calls')
             /\ loading' /\ ~syncing'
             /\ data' = data
        /\ (SyncSettlesNow /\ ~settled'.ok) =>
             /\ Len(calls') = Len(calls)
             /\ requests' = requests
             /\ data' = data
             /\ loading' = loading
             /\ ~syncing']_vars

\* C19 witness: the sync resolved, the one reload it dispatched has brought
\* the snapshot now shown, and syncing is false.
C19_Witness ==
  /\ page = "Index" /\ ~syncing /\ ~loading
  /\ \E c \in DOMAIN calls :
       /\ calls[c].owner = "Index.handleSync" /\ calls[c].pc = "resolved"
       /\ Cardinality({d \in DOMAIN calls : d > c /\ Dashboard(d)}) = 1
       /\ settled.id = c + 1 /\ settled.ok
       /\ data = settled.value

SyncsPending ==
  {c \in DOMAIN calls : calls[c].op = "syncExpenses" /\ Pending(c)}
DashboardsPending == {c \in DOMAIN calls : Dashboard(c) /\ Pending(c)}

\* The calls dispatched by the step, by operation.
Dispatched(op) ==
  {c \in DOMAIN calls' : c > Len(calls) /\ calls'[c].op = op}

ExpenseRequestsOutstanding ==
  {c \in DOMAIN calls : calls[c].owner = "Expenses.effect" /\ Pending(c)}

\* C21: on the expense-list page loading is true whenever at least one
\* expense request is outstanding, whatever the interleaving of filter
\* changes and responses; it is false only when none remains in flight.
C21_LoadingWhileOutstanding ==
  page = "Expenses" /\ ExpenseRequestsOutstanding # {} => loading

\* ------------------------------------------------------ the Paid By Me page

ExpenseCalls == {c \in DOMAIN calls : calls[c].op = "fetchExpenses"}
PageAuthCalls == {c \in DOMAIN calls : calls[c].owner = "PaidByMe.auth"}

\* The query pairs of the selections, the empty ones left out.
CurrentFilters(s) ==
  LET one(k) == IF s[k] # <<>> THEN << <<ParamName(k), s[k]>> >> ELSE <<>>
  IN one("year") \o one("month") \o one("category")

\* The step is the page's auth-status call resolving with a user of this
\* first name.
AuthResolvesWith(name) ==
  /\ settled'.id # settled.id
  /\ settled'.owner = "PaidByMe.auth"
  /\ settled'.ok
  /\ Get(settled'.value, "user").t = "obj"
  /\ Get(Get(settled'.value, "user"), "first_name") = JStr(name)

\* C22: on the Paid By Me page no expense request is dispatched before the
\* page's auth-status call has resolved with a user of non-empty first name;
\* when that call rejected, or brought no user or an empty first name, no
\* expense request is dispatched and loading stays true; once the name is
\* known every change of year, month or category dispatches one request
\* carrying the current filters.
C22_ExpensesWaitForUserName ==
  /\ [](page = "PaidByMe" =>
          /\ ExpenseCalls # {} =>
               /\ userName # <<>>
               /\ \A a \in PageAuthCalls : calls[a].pc = "resolved"
               /\ \A c \in ExpenseCalls : \A a \in PageAuthCalls : a < c
          /\ userName = <<>> => ExpenseCalls = {} /\ loading)
  /\ [][page = "PaidByMe" =>
          /\ userName' # userName => userName = <<>> /\ AuthResolvesWith(userName')
          /\ (settled'.id # settled.id /\ settled'.owner = "PaidByMe.auth"
                /\ ~AuthResolvesWith(userName')) =>
               userName' = <<>> /\ calls' = [calls EXCEPT ![settled'.id] = calls'[settled'.id]]
          /\ (sel' # sel /\ userName = <<>>) =>
               calls' = calls /\ requests' = requests
          /\ (sel' # sel /\ userName # <<>>) =>
               /\ Len(calls') = Len(calls) + 1
               /\ Len(requests') = Len(requests) + 1
               /\ calls'[Len(calls')].op = "fetchExpenses"
               /\ requests'[Len(requests')].call = Len(calls')
               /\ requests'[Len(requests')].req.method = "GET"
               /\ requests'[Len(requests')].req.url.path = "/api/expenses"
               /\ ParseQuery(requests'[Len(requests')].req.url.search)
                    = CurrentFilters(sel')]_vars

\* C22 witness: the name is known, the month was changed after that, and
\* the second of the two expense requests carries the month chosen.
C22_Witness ==
  /\ page = "PaidByMe" /\ userName = TextMe
  /\ sel.month # <<>>
  /\ Cardinality(ExpenseCalls) = 2
  /\ ParseQuery(requests[Len(requests)].req.url.search)
       = << <<ParamName("month"), sel.month>> >>

\* The positions of a list whose expense was paid by `name`.
PaidPositions(list, name) == {i \in DOMAIN list : list[i].payer_name = name}

\* `held` is the sub-list of `list` at the positions `at`, in list order.
IsSubListAt(held, list, at) ==
  /\ Len(held) = Cardinality(at)
  /\ \A j \in DOMAIN held :
       \E i \in at : Cardinality({k \in at : k < i}) = j - 1 /\ held[j] = list[i]

ListingApplied ==
  settled'.id # settled.id /\ settled'.owner = "PaidByMe.effect" /\ settled'.ok

\* C23: on the Paid By Me page every expense held in state was paid by the
\* current user; when a response is applied the state is exactly the
\* sub-list of that response with that payer, in the response's order, with
\* nothing kept from the list held before; nothing else changes the list.
C23_HeldListIsUsersSubList ==
  /\ [](page = "PaidByMe" =>
          \A i \in DOMAIN expenses : expenses[i].payer_name = userName)
  /\ [][page = "PaidByMe" =>
          /\ ListingApplied =>
               /\ userName' = userName
               /\ settled'.value = UnwrapExpenses(settled'.body.json)
               /\ IsSubListAt(expenses', settled'.value.v,
                              PaidPositions(settled'.value.v, userName))
          /\ ~ListingApplied => expenses' = expenses]_vars

\* C23 witness: a response of three expenses, the user's first and last,
\* replaced a held list of one expense by the user's two, in their order.
C23_Witness ==
  /\ page = "PaidByMe" /\ userName = TextMe
  /\ Resolved /\ settled.owner = "PaidByMe.effect"
  /\ settled.value.v = <<Expense3, Expense2, Expense1>>
  /\ expenses = <<Expense3, Expense1>>
  /\ \E c \in DOMAIN calls :
       c < settled.id /\ calls[c].owner = "PaidByMe.effect" /\ calls[c].pc = "resolved"

====
